---- MODULE Spec2Model ----
(***************************************************************************)
(* A model of app/paint/gimpmirror.c: the mirror multi-stroke of GIMP.     *)
(*                                                                         *)
(* Representation of numbers.  Every gdouble of the program (the two axis  *)
(* positions, the coordinates of a stroke, the origins of the transform    *)
(* descriptors) is held as TWICE its value, an integer: all the doubles    *)
(* the program computes here are integers or integers plus one half.       *)
(* (gdouble) i is FromInt(i) = 2i, (gint) d is ToInt(d) = d \div 2, and    *)
(* 2.0 * a - b is 2a - b on the doubled values.                            *)
(***************************************************************************)
EXTENDS Integers, Sequences, FiniteSets, TLC

(* ------------------------------ bounds --------------------------------- *)

\* Origins of a stroke: the integer points (i, MaxCoord - i), i in 0..MaxCoord.
MaxCoord == 1
\* Guides the program may create (gimp->next_guide_ID is capped).
MaxGuideID == 3
\* Handlers of one signal connected on one guide (capped).
MaxHandlers == 2
\* Brush sizes handed to get_operation are in 0..MaxPaint.
MaxPaint == 1
\* Persisted positions handed to the position properties: 0, 0.5, .. MaxPosition/2.
MaxPosition == 1

\* The extent of the image: the width is odd, the height even.
ImageWidth == 3
ImageHeight == 2

(* --------------------------- program values ---------------------------- *)

\* A NULL guide pointer; guide IDs start at 1.
NULL == 0

\* A NULL GimpCoords pointer (mstroke->origin before any stroke).
NoCoords == [null |-> TRUE]

\* A NULL GeglNode pointer.
NoOp == [operation |-> "NULL"]

FromInt(i) == 2 * i

ToInt(d) == d \div 2

Coords == {[x |-> FromInt(i), y |-> FromInt(MaxCoord - i)] : i \in 0..MaxCoord}

Positions == 0..MaxPosition

\* Two spare slots: one setter creates at most two guides.
GuideIDs == 1..(MaxGuideID + 2)

\* A guide object nobody has attached or connected to.
NewGuide == [attached |-> FALSE, position |-> 0,
             removed_handlers |-> 0, position_handlers |-> 0]

RECURSIVE Reverse(_)
Reverse(l) == IF l = <<>> THEN <<>> ELSE Append(Reverse(Tail(l)), Head(l))

Prepend(l, e) == <<e>> \o l

(* ------------------------------- state --------------------------------- *)

VARIABLES
  horizontal_mirror, vertical_mirror, point_symmetry, disable_transformation,
  horizontal_position, vertical_position,
  horizontal_guide, vertical_guide,
  horizontal_op, vertical_op, central_op,
  last_paint_width, last_paint_height,
  origin, strokes,
  next_guide_ID, guides, installed,
  log, ret

vars == <<horizontal_mirror, vertical_mirror, point_symmetry, disable_transformation,
          horizontal_position, vertical_position,
          horizontal_guide, vertical_guide,
          horizontal_op, vertical_op, central_op,
          last_paint_width, last_paint_height,
          origin, strokes,
          next_guide_ID, guides, installed,
          log, ret>>

\* The state of the program as one record, for the handlers to transform.  log
\* is what the running handler has done so far (signals connected, disconnected
\* and emitted, calls into the image, an early return) and ret what it returns.
State ==
  [horizontal_mirror |-> horizontal_mirror, vertical_mirror |-> vertical_mirror,
   point_symmetry |-> point_symmetry,
   disable_transformation |-> disable_transformation,
   horizontal_position |-> horizontal_position,
   vertical_position |-> vertical_position,
   horizontal_guide |-> horizontal_guide, vertical_guide |-> vertical_guide,
   horizontal_op |-> horizontal_op, vertical_op |-> vertical_op,
   central_op |-> central_op,
   last_paint_width |-> last_paint_width, last_paint_height |-> last_paint_height,
   origin |-> origin, strokes |-> strokes,
   next_guide_ID |-> next_guide_ID, guides |-> guides, installed |-> installed,
   log |-> <<>>, ret |-> NoOp]

\* A handler ran and left the program in state t.
Commit(t) ==
  /\ horizontal_mirror' = t.horizontal_mirror
  /\ vertical_mirror' = t.vertical_mirror
  /\ point_symmetry' = t.point_symmetry
  /\ disable_transformation' = t.disable_transformation
  /\ horizontal_position' = t.horizontal_position
  /\ vertical_position' = t.vertical_position
  /\ horizontal_guide' = t.horizontal_guide
  /\ vertical_guide' = t.vertical_guide
  /\ horizontal_op' = t.horizontal_op
  /\ vertical_op' = t.vertical_op
  /\ central_op' = t.central_op
  /\ last_paint_width' = t.last_paint_width
  /\ last_paint_height' = t.last_paint_height
  /\ origin' = t.origin
  /\ strokes' = t.strokes
  /\ next_guide_ID' = t.next_guide_ID
  /\ guides' = t.guides
  /\ installed' = t.installed
  /\ log' = t.log
  /\ ret' = t.ret

Emit(s, what) == [s EXCEPT !.log = Append(@, what)]

(* --------------------------- stroke deriver ---------------------------- *)

\* update_strokes without the final g_list_reverse.
update_strokes_unreversed(s, o) ==
  LET l0 == Prepend(<<>>, o)
      l1 == IF s.horizontal_mirror
              THEN Prepend(l0, [o EXCEPT !.y = 2 * s.horizontal_position - o.y])
              ELSE l0
      l2 == IF s.vertical_mirror
              THEN Prepend(l1, [o EXCEPT !.x = 2 * s.vertical_position - o.x])
              ELSE l1
      l3 == IF s.point_symmetry
              THEN Prepend(l2, [o EXCEPT !.x = 2 * s.vertical_position - o.x,
                                         !.y = 2 * s.horizontal_position - o.y])
              ELSE l2
  IN  Emit([s EXCEPT !.strokes = l3], "strokes-updated")

update_strokes(s, o) ==
  LET l0 == Prepend(<<>>, o)
      l1 == IF s.horizontal_mirror
              THEN Prepend(l0, [o EXCEPT !.y = 2 * s.horizontal_position - o.y])
              ELSE l0
      l2 == IF s.vertical_mirror
              THEN Prepend(l1, [o EXCEPT !.x = 2 * s.vertical_position - o.x])
              ELSE l1
      l3 == IF s.point_symmetry
              THEN Prepend(l2, [o EXCEPT !.x = 2 * s.vertical_position - o.x,
                                         !.y = 2 * s.horizontal_position - o.y])
              ELSE l2
  IN  Emit([s EXCEPT !.strokes = Reverse(l3)], "strokes-updated")

\* The base class records the origin and has the subclass derive the strokes.
gimp_multi_stroke_set_origin(s, o) == update_strokes([s EXCEPT !.origin = o], o)

\* gimp_mirror_reset that never derives the strokes again.
gimp_mirror_reset_noop(s) == s

gimp_mirror_reset(s) ==
  IF s.origin # NoCoords THEN gimp_multi_stroke_set_origin(s, s.origin) ELSE s

(* ------------------------- host notifications -------------------------- *)

Connect(s, g, signal) ==
  Emit([s EXCEPT !.guides[g] =
          IF signal = "removed"
            THEN [@ EXCEPT !.removed_handlers = @ + 1]
            ELSE [@ EXCEPT !.position_handlers = @ + 1]],
       "connect")

\* g_signal_handlers_disconnect_by_func drops every matching handler.
Disconnect(s, g, signal) ==
  Emit([s EXCEPT !.guides[g] =
          IF signal = "removed"
            THEN [@ EXCEPT !.removed_handlers = 0]
            ELSE [@ EXCEPT !.position_handlers = 0]],
       "disconnect")

\* gimp_mirror_guide_position_cb that derives the strokes again at once.
guide_position_cb_rederives(s, g) ==
  IF g = s.horizontal_guide
    THEN gimp_mirror_reset(
           [s EXCEPT !.horizontal_position = FromInt(s.guides[g].position)])
    ELSE IF g = s.vertical_guide
      THEN gimp_mirror_reset(
             [s EXCEPT !.vertical_position = FromInt(s.guides[g].position)])
      ELSE s

gimp_mirror_guide_position_cb(s, g) ==
  IF g = s.horizontal_guide
    THEN [s EXCEPT !.horizontal_position = FromInt(s.guides[g].position)]
    ELSE IF g = s.vertical_guide
      THEN [s EXCEPT !.vertical_position = FromInt(s.guides[g].position)]
      ELSE s

\* The guide stores an integer position and notifies whoever is connected.
gimp_guide_set_position(s, g, position) ==
  LET s1 == [s EXCEPT !.guides[g].position = position]
  IN  IF s1.guides[g].position_handlers > 0
        THEN gimp_mirror_guide_position_cb(s1, g)
        ELSE s1

gimp_image_add_guide(s, g, position) ==
  gimp_guide_set_position(
    Emit([s EXCEPT !.guides[g].attached = TRUE], "add_guide"), g, position)

\* The image drops the mirror from its multi-strokes.
gimp_image_remove_multi_stroke(s) ==
  Emit([s EXCEPT !.installed = FALSE], "remove_multi_stroke")

\* gimp_mirror_guide_removed_cb that leaves point symmetry as it was.
guide_removed_cb_keeps_point_symmetry(s, g) ==
  LET s1 == Disconnect(Disconnect(s, g, "removed"), g, "position")
      s2 == IF g = s1.horizontal_guide
              THEN [s1 EXCEPT !.horizontal_guide = NULL,
                              !.horizontal_mirror = FALSE,
                              !.horizontal_position = 0]
              ELSE IF g = s1.vertical_guide
                THEN [s1 EXCEPT !.vertical_guide = NULL,
                                !.vertical_mirror = FALSE,
                                !.vertical_position = 0]
                ELSE s1
  IN  IF s2.horizontal_guide = NULL /\ s2.vertical_guide = NULL
        THEN gimp_image_remove_multi_stroke(s2)
        ELSE gimp_mirror_reset(s2)

\* gimp_mirror_guide_removed_cb that removes the mirror from the image as soon
\* as no flag is left, whatever handles it still holds.
guide_removed_cb_flag_teardown(s, g) ==
  LET s1 == Disconnect(Disconnect(s, g, "removed"), g, "position")
      s2 == IF g = s1.horizontal_guide
              THEN [s1 EXCEPT !.horizontal_guide = NULL,
                              !.horizontal_mirror = FALSE,
                              !.point_symmetry = FALSE,
                              !.horizontal_position = 0]
              ELSE IF g = s1.vertical_guide
                THEN [s1 EXCEPT !.vertical_guide = NULL,
                                !.vertical_mirror = FALSE,
                                !.point_symmetry = FALSE,
                                !.vertical_position = 0]
                ELSE s1
  IN  IF ~ s2.horizontal_mirror /\ ~ s2.vertical_mirror /\ ~ s2.point_symmetry
        THEN gimp_image_remove_multi_stroke(s2)
        ELSE gimp_mirror_reset(s2)

\* gimp_mirror_guide_removed_cb without the final gimp_mirror_reset.
guide_removed_cb_no_reset(s, g) ==
  LET s1 == Disconnect(Disconnect(s, g, "removed"), g, "position")
      s2 == IF g = s1.horizontal_guide
              THEN [s1 EXCEPT !.horizontal_guide = NULL,
                              !.horizontal_mirror = FALSE,
                              !.point_symmetry = FALSE,
                              !.horizontal_position = 0]
              ELSE IF g = s1.vertical_guide
                THEN [s1 EXCEPT !.vertical_guide = NULL,
                                !.vertical_mirror = FALSE,
                                !.point_symmetry = FALSE,
                                !.vertical_position = 0]
                ELSE s1
  IN  IF s2.horizontal_guide = NULL /\ s2.vertical_guide = NULL
        THEN gimp_image_remove_multi_stroke(s2)
        ELSE s2

gimp_mirror_guide_removed_cb(s, g) ==
  LET s1 == Disconnect(Disconnect(s, g, "removed"), g, "position")
      s2 == IF g = s1.horizontal_guide
              THEN [s1 EXCEPT !.horizontal_guide = NULL,
                              !.horizontal_mirror = FALSE,
                              !.point_symmetry = FALSE,
                              !.horizontal_position = 0]
              ELSE IF g = s1.vertical_guide
                THEN [s1 EXCEPT !.vertical_guide = NULL,
                                !.vertical_mirror = FALSE,
                                !.point_symmetry = FALSE,
                                !.vertical_position = 0]
                ELSE s1
  IN  IF s2.horizontal_guide = NULL /\ s2.vertical_guide = NULL
        THEN gimp_image_remove_multi_stroke(s2)
        ELSE gimp_mirror_reset(s2)

\* The image takes the guide out of its guides and tells whoever listens; a
\* guide that nobody holds any more is gone.
gimp_image_remove_guide(s, g) ==
  LET s1 == Emit([s EXCEPT !.guides[g].attached = FALSE], "remove_guide")
      s2 == IF s1.guides[g].removed_handlers > 0
              THEN gimp_mirror_guide_removed_cb(s1, g)
              ELSE s1
  IN  IF g \in {s2.horizontal_guide, s2.vertical_guide}
        THEN s2
        ELSE [s2 EXCEPT !.guides[g] = NewGuide]

(* ---------------------------- guide binding ---------------------------- *)

\* show_horizontal_guide that puts the axis back at the middle on every show.
show_horizontal_guide_recentred(s) ==
  LET s1 == IF s.horizontal_guide = NULL
              THEN [s EXCEPT !.horizontal_position = FromInt(ImageHeight) \div 2,
                             !.horizontal_guide = s.next_guide_ID,
                             !.next_guide_ID = @ + 1]
              ELSE [s EXCEPT !.horizontal_position = FromInt(ImageHeight) \div 2]
      g  == s1.horizontal_guide
      s2 == Connect(s1, g, "removed")
      s3 == gimp_image_add_guide(s2, g, ToInt(s2.horizontal_position))
  IN  Connect(s3, g, "position")

show_horizontal_guide(s) ==
  LET s1 == IF s.horizontal_guide = NULL
              THEN [s EXCEPT !.horizontal_position = FromInt(ImageHeight) \div 2,
                             !.horizontal_guide = s.next_guide_ID,
                             !.next_guide_ID = @ + 1]
              ELSE s
      g  == s1.horizontal_guide
      s2 == Connect(s1, g, "removed")
      s3 == gimp_image_add_guide(s2, g, ToInt(s2.horizontal_position))
  IN  Connect(s3, g, "position")

hide_horizontal_guide(s) ==
  LET g == s.horizontal_guide
  IN  IF g = NULL
        THEN Emit(s, "critical")
        ELSE gimp_image_remove_guide(
               Disconnect(Disconnect(s, g, "removed"), g, "position"), g)

show_vertical_guide(s) ==
  LET s1 == IF s.vertical_guide = NULL
              THEN [s EXCEPT !.vertical_position = FromInt(ImageWidth) \div 2,
                             !.vertical_guide = s.next_guide_ID,
                             !.next_guide_ID = @ + 1]
              ELSE s
      g  == s1.vertical_guide
      s2 == Connect(s1, g, "removed")
      s3 == gimp_image_add_guide(s2, g, ToInt(s2.vertical_position))
  IN  Connect(s3, g, "position")

hide_vertical_guide(s) ==
  LET g == s.vertical_guide
  IN  IF g = NULL
        THEN Emit(s, "critical")
        ELSE gimp_image_remove_guide(
               Disconnect(Disconnect(s, g, "removed"), g, "position"), g)

(* ----------------------------- mirror state ---------------------------- *)

\* gimp_mirror_set_horizontal_symmetry that hides the guide whether or not
\* point symmetry still needs it.
set_horizontal_symmetry_unguarded(s, active) ==
  IF active = s.horizontal_mirror
    THEN Emit(s, "return")
    ELSE LET s1 == [s EXCEPT !.horizontal_mirror = active]
             s2 == IF active
                     THEN show_horizontal_guide(s1)
                     ELSE hide_horizontal_guide(s1)
         IN  gimp_mirror_reset(s2)

gimp_mirror_set_horizontal_symmetry(s, active) ==
  IF active = s.horizontal_mirror
    THEN Emit(s, "return")
    ELSE LET s1 == [s EXCEPT !.horizontal_mirror = active]
             s2 == IF active
                     THEN show_horizontal_guide(s1)
                     ELSE IF ~ s1.point_symmetry
                       THEN hide_horizontal_guide(s1)
                       ELSE s1
         IN  gimp_mirror_reset(s2)

\* gimp_mirror_set_vertical_symmetry without the early return.
set_vertical_symmetry_no_return(s, active) ==
  LET s1 == [s EXCEPT !.vertical_mirror = active]
      s2 == IF active
              THEN show_vertical_guide(s1)
              ELSE IF ~ s1.point_symmetry
                THEN hide_vertical_guide(s1)
                ELSE s1
  IN  gimp_mirror_reset(s2)

gimp_mirror_set_vertical_symmetry(s, active) ==
  IF active = s.vertical_mirror
    THEN Emit(s, "return")
    ELSE LET s1 == [s EXCEPT !.vertical_mirror = active]
             s2 == IF active
                     THEN show_vertical_guide(s1)
                     ELSE IF ~ s1.point_symmetry
                       THEN hide_vertical_guide(s1)
                       ELSE s1
         IN  gimp_mirror_reset(s2)

\* gimp_mirror_set_point_symmetry that hides both guides on deactivation,
\* whatever the axes' own flags.
set_point_symmetry_hide_all(s, active) ==
  IF active = s.point_symmetry
    THEN Emit(s, "return")
    ELSE LET s1 == [s EXCEPT !.point_symmetry = active]
             s2 == IF active
                     THEN IF ~ s1.horizontal_mirror
                            THEN show_horizontal_guide(s1) ELSE s1
                     ELSE hide_horizontal_guide(s1)
             s3 == IF active
                     THEN IF ~ s2.vertical_mirror
                            THEN show_vertical_guide(s2) ELSE s2
                     ELSE hide_vertical_guide(s2)
         IN  gimp_mirror_reset(s3)

\* gimp_mirror_set_point_symmetry that switches the two axes' own flags too.
set_point_symmetry_sets_axes(s, active) ==
  IF active = s.point_symmetry
    THEN Emit(s, "return")
    ELSE LET s1 == [s EXCEPT !.point_symmetry = active]
             s2 == IF active
                     THEN IF ~ s1.horizontal_mirror
                            THEN show_horizontal_guide(
                                   [s1 EXCEPT !.horizontal_mirror = TRUE])
                            ELSE s1
                     ELSE IF ~ s1.horizontal_mirror
                            THEN hide_horizontal_guide(s1) ELSE s1
             s3 == IF active
                     THEN IF ~ s2.vertical_mirror
                            THEN show_vertical_guide(
                                   [s2 EXCEPT !.vertical_mirror = TRUE])
                            ELSE s2
                     ELSE IF ~ s2.vertical_mirror
                            THEN hide_vertical_guide(s2) ELSE s2
         IN  gimp_mirror_reset(s3)

gimp_mirror_set_point_symmetry(s, active) ==
  IF active = s.point_symmetry
    THEN Emit(s, "return")
    ELSE LET s1 == [s EXCEPT !.point_symmetry = active]
             s2 == IF active
                     THEN IF ~ s1.horizontal_mirror
                            THEN show_horizontal_guide(s1) ELSE s1
                     ELSE IF ~ s1.horizontal_mirror
                            THEN hide_horizontal_guide(s1) ELSE s1
             s3 == IF active
                     THEN IF ~ s2.vertical_mirror
                            THEN show_vertical_guide(s2) ELSE s2
                     ELSE IF ~ s2.vertical_mirror
                            THEN hide_vertical_guide(s2) ELSE s2
         IN  gimp_mirror_reset(s3)

set_horizontal_position(s, d) ==
  LET s1 == [s EXCEPT !.horizontal_position = d]
  IN  IF s1.horizontal_guide # NULL
        THEN gimp_guide_set_position(s1, s1.horizontal_guide, ToInt(d))
        ELSE s1

set_vertical_position(s, d) ==
  LET s1 == [s EXCEPT !.vertical_position = d]
  IN  IF s1.vertical_guide # NULL
        THEN gimp_guide_set_position(s1, s1.vertical_guide, ToInt(d))
        ELSE s1

set_disable_transformation(s, b) == [s EXCEPT !.disable_transformation = b]

(* -------------------------- transform selector ------------------------- *)

gegl_node_new_child(s, node) == Emit(s, "gegl_node_new_child")

\* gimp_mirror_prepare_operations that keys its cache on the width alone.
prepare_operations_width_only(s, paint_width, paint_height) ==
  IF paint_width = s.last_paint_width
    THEN s
    ELSE LET s1 == [s EXCEPT !.last_paint_width = paint_width,
                             !.last_paint_height = paint_height]
             s2 == [gegl_node_new_child(s1, "horizontal_op") EXCEPT
                      !.horizontal_op =
                        [operation |-> "gegl:reflect", origin_x |-> 0,
                         origin_y |-> FromInt(paint_height) \div 2,
                         x |-> FromInt(1), y |-> 0]]
             s3 == [gegl_node_new_child(s2, "vertical_op") EXCEPT
                      !.vertical_op =
                        [operation |-> "gegl:reflect",
                         origin_x |-> FromInt(paint_width) \div 2, origin_y |-> 0,
                         x |-> 0, y |-> FromInt(1)]]
         IN  [gegl_node_new_child(s3, "central_op") EXCEPT
                !.central_op =
                  [operation |-> "gegl:rotate",
                   origin_x |-> FromInt(paint_width) \div 2,
                   origin_y |-> FromInt(paint_height) \div 2,
                   degrees |-> FromInt(180)]]

gimp_mirror_prepare_operations(s, paint_width, paint_height) ==
  IF paint_width = s.last_paint_width /\ paint_height = s.last_paint_height
    THEN s
    ELSE LET s1 == [s EXCEPT !.last_paint_width = paint_width,
                             !.last_paint_height = paint_height]
             s2 == [gegl_node_new_child(s1, "horizontal_op") EXCEPT
                      !.horizontal_op =
                        [operation |-> "gegl:reflect", origin_x |-> 0,
                         origin_y |-> FromInt(paint_height) \div 2,
                         x |-> FromInt(1), y |-> 0]]
             s3 == [gegl_node_new_child(s2, "vertical_op") EXCEPT
                      !.vertical_op =
                        [operation |-> "gegl:reflect",
                         origin_x |-> FromInt(paint_width) \div 2, origin_y |-> 0,
                         x |-> 0, y |-> FromInt(1)]]
         IN  [gegl_node_new_child(s3, "central_op") EXCEPT
                !.central_op =
                  [operation |-> "gegl:rotate",
                   origin_x |-> FromInt(paint_width) \div 2,
                   origin_y |-> FromInt(paint_height) \div 2,
                   degrees |-> FromInt(180)]]

\* gimp_mirror_get_operation whose second branch takes stroke 2 for the
\* vertical mirror without asking whether the horizontal one is on.
get_operation_loose_vertical(s, stroke, paint_width, paint_height) ==
  IF ~ (stroke >= 0 /\ stroke < Len(s.strokes))
    THEN Emit([s EXCEPT !.ret = NoOp], "critical")
    ELSE LET s1 == gimp_mirror_prepare_operations(s, paint_width, paint_height)
         IN  IF s1.disable_transformation \/ stroke = 0
                \/ paint_width = 0 \/ paint_height = 0
               THEN [s1 EXCEPT !.ret = NoOp]
               ELSE IF stroke = 1 /\ s1.horizontal_mirror
                 THEN [s1 EXCEPT !.ret = s1.horizontal_op]
                 ELSE IF (stroke = 2 /\ s1.vertical_mirror)
                         \/ (stroke = 1 /\ s1.vertical_mirror /\ ~ s1.horizontal_mirror)
                   THEN [s1 EXCEPT !.ret = s1.vertical_op]
                   ELSE [s1 EXCEPT !.ret = s1.central_op]

\* gimp_mirror_get_operation that forgets the brushes of height 0.
get_operation_no_height_check(s, stroke, paint_width, paint_height) ==
  IF ~ (stroke >= 0 /\ stroke < Len(s.strokes))
    THEN Emit([s EXCEPT !.ret = NoOp], "critical")
    ELSE LET s1 == gimp_mirror_prepare_operations(s, paint_width, paint_height)
         IN  IF s1.disable_transformation \/ stroke = 0 \/ paint_width = 0
               THEN [s1 EXCEPT !.ret = NoOp]
               ELSE IF stroke = 1 /\ s1.horizontal_mirror
                 THEN [s1 EXCEPT !.ret = s1.horizontal_op]
                 ELSE IF (stroke = 2 /\ s1.horizontal_mirror /\ s1.vertical_mirror)
                         \/ (stroke = 1 /\ s1.vertical_mirror /\ ~ s1.horizontal_mirror)
                   THEN [s1 EXCEPT !.ret = s1.vertical_op]
                   ELSE [s1 EXCEPT !.ret = s1.central_op]

\* gimp_mirror_get_operation that prepares the descriptors before it looks at
\* the index.
get_operation_prepare_first(s, stroke, paint_width, paint_height) ==
  LET s1 == gimp_mirror_prepare_operations(s, paint_width, paint_height)
  IN  IF ~ (stroke >= 0 /\ stroke < Len(s.strokes))
        THEN Emit([s1 EXCEPT !.ret = NoOp], "critical")
        ELSE IF s1.disable_transformation \/ stroke = 0
                \/ paint_width = 0 \/ paint_height = 0
          THEN [s1 EXCEPT !.ret = NoOp]
          ELSE IF stroke = 1 /\ s1.horizontal_mirror
            THEN [s1 EXCEPT !.ret = s1.horizontal_op]
            ELSE IF (stroke = 2 /\ s1.horizontal_mirror /\ s1.vertical_mirror)
                    \/ (stroke = 1 /\ s1.vertical_mirror /\ ~ s1.horizontal_mirror)
              THEN [s1 EXCEPT !.ret = s1.vertical_op]
              ELSE [s1 EXCEPT !.ret = s1.central_op]

\* gimp_mirror_get_operation that never prepares the descriptors.
get_operation_unprepared(s, stroke, paint_width, paint_height) ==
  IF ~ (stroke >= 0 /\ stroke < Len(s.strokes))
    THEN Emit([s EXCEPT !.ret = NoOp], "critical")
    ELSE IF s.disable_transformation \/ stroke = 0
            \/ paint_width = 0 \/ paint_height = 0
      THEN [s EXCEPT !.ret = NoOp]
      ELSE IF stroke = 1 /\ s.horizontal_mirror
        THEN [s EXCEPT !.ret = s.horizontal_op]
        ELSE IF (stroke = 2 /\ s.horizontal_mirror /\ s.vertical_mirror)
                \/ (stroke = 1 /\ s.vertical_mirror /\ ~ s.horizontal_mirror)
          THEN [s EXCEPT !.ret = s.vertical_op]
          ELSE [s EXCEPT !.ret = s.central_op]

gimp_mirror_get_operation(s, stroke, paint_width, paint_height) ==
  IF ~ (stroke >= 0 /\ stroke < Len(s.strokes))
    THEN Emit([s EXCEPT !.ret = NoOp], "critical")
    ELSE LET s1 == gimp_mirror_prepare_operations(s, paint_width, paint_height)
         IN  IF s1.disable_transformation \/ stroke = 0
                \/ paint_width = 0 \/ paint_height = 0
               THEN [s1 EXCEPT !.ret = NoOp]
               ELSE IF stroke = 1 /\ s1.horizontal_mirror
                 THEN [s1 EXCEPT !.ret = s1.horizontal_op]
                 ELSE IF (stroke = 2 /\ s1.horizontal_mirror /\ s1.vertical_mirror)
                         \/ (stroke = 1 /\ s1.vertical_mirror /\ ~ s1.horizontal_mirror)
                   THEN [s1 EXCEPT !.ret = s1.vertical_op]
                   ELSE [s1 EXCEPT !.ret = s1.central_op]

(* ------------------------------ behaviour ------------------------------ *)

gimp_mirror_init ==
  /\ horizontal_mirror = FALSE
  /\ vertical_mirror = FALSE
  /\ point_symmetry = FALSE
  /\ horizontal_guide = NULL
  /\ vertical_guide = NULL

Init ==
  /\ gimp_mirror_init
  /\ disable_transformation = FALSE
  /\ horizontal_position = 0
  /\ vertical_position = 0
  /\ horizontal_op = NoOp
  /\ vertical_op = NoOp
  /\ central_op = NoOp
  /\ last_paint_width = 0
  /\ last_paint_height = 0
  /\ origin = NoCoords
  /\ strokes = <<>>
  /\ next_guide_ID = 1
  /\ guides = [g \in GuideIDs |-> NewGuide]
  /\ installed = TRUE
  /\ log = <<>>
  /\ ret = NoOp

\* The caps on the counters the program lets grow without bound.
Bounded(t) ==
  /\ t.next_guide_ID <= MaxGuideID + 1
  /\ \A g \in GuideIDs : /\ t.guides[g].removed_handlers <= MaxHandlers
                         /\ t.guides[g].position_handlers <= MaxHandlers

Run(t) == installed /\ Bounded(t) /\ Commit(t)

SetHorizontalSymmetry ==
  \E active \in BOOLEAN :
    Run(gimp_mirror_set_horizontal_symmetry(State, active))

SetVerticalSymmetry ==
  \E active \in BOOLEAN :
    Run(gimp_mirror_set_vertical_symmetry(State, active))

SetPointSymmetry ==
  \E active \in BOOLEAN :
    Run(gimp_mirror_set_point_symmetry(State, active))

SetDisableTransformation ==
  \E b \in BOOLEAN :
    Run(set_disable_transformation(State, b))

SetHorizontalPosition ==
  \E d \in Positions :
    Run(set_horizontal_position(State, d))

SetVerticalPosition ==
  \E d \in Positions :
    Run(set_vertical_position(State, d))

SetOrigin ==
  \E o \in Coords :
    Run(gimp_multi_stroke_set_origin(State, o))

GetOperation ==
  \E stroke \in 0..4, w \in 0..MaxPaint, h \in 0..MaxPaint :
    Run(gimp_mirror_get_operation(State, stroke, w, h))

\* The user deletes a guide of the image.
GuideRemoved ==
  \E g \in GuideIDs :
    /\ guides[g].attached
    /\ Run(gimp_image_remove_guide(State, g))

\* The user drags a guide of the image.
GuideMoved ==
  \E g \in GuideIDs :
    /\ guides[g].attached
    /\ \E position \in 0..ToInt(MaxPosition) :
         Run(gimp_guide_set_position(State, g, position))

Next ==
  \/ SetHorizontalSymmetry
  \/ SetVerticalSymmetry
  \/ SetPointSymmetry
  \/ SetHorizontalPosition
  \/ SetVerticalPosition
  \/ SetOrigin
  \/ GuideRemoved
  \/ GuideMoved

Spec == Init /\ [][Next]_vars

NextOps ==
  \/ SetHorizontalSymmetry
  \/ SetVerticalSymmetry
  \/ SetPointSymmetry
  \/ SetDisableTransformation
  \/ SetOrigin
  \/ GetOperation

SpecOps == Init /\ [][NextOps]_vars

(* ------------------------- vocabulary of claims ------------------------ *)

Has(l, e) == \E i \in 1..Len(l) : l[i] = e

Count(l, e) == Cardinality({i \in 1..Len(l) : l[i] = e})

AttachedIn(gs, g) == g # NULL /\ gs[g].attached

SubscribedIn(gs, g) ==
  g # NULL /\ gs[g].removed_handlers > 0 /\ gs[g].position_handlers > 0

Attached(g) == AttachedIn(guides, g)

Subscribed(g) == SubscribedIn(guides, g)

\* Everything of the program but what the last handler did and returned.
program == <<horizontal_mirror, vertical_mirror, point_symmetry,
             disable_transformation, horizontal_position, vertical_position,
             horizontal_guide, vertical_guide,
             horizontal_op, vertical_op, central_op,
             last_paint_width, last_paint_height,
             origin, strokes, next_guide_ID, guides, installed>>

\* The strokes of origin o about the axes at hp and vp, as the documentation
\* lists them: the origin, then one mirrored point for each active flag.
DerivedStrokes(o, hm, vm, ps, hp, vp) ==
  <<o>>
  \o (IF hm THEN <<[x |-> o.x, y |-> 2 * hp - o.y]>> ELSE <<>>)
  \o (IF vm THEN <<[x |-> 2 * vp - o.x, y |-> o.y]>> ELSE <<>>)
  \o (IF ps THEN <<[x |-> 2 * vp - o.x, y |-> 2 * hp - o.y]>> ELSE <<>>)

CurrentStrokes ==
  DerivedStrokes(origin, horizontal_mirror, vertical_mirror, point_symmetry,
                 horizontal_position, vertical_position)

(* -------------------------------- claims ------------------------------- *)

\* C1: whenever update_strokes has just run, the stroke list is exactly the
\* origin, then the horizontal-mirrored point if horizontal_mirror, then the
\* vertical-mirrored point if vertical_mirror, then the point-mirrored point if
\* point_symmetry, in that order and without deduplication; with no flag it is
\* [origin] and with all three it has 4 entries.
C1_UpdateStrokes ==
  Has(log, "strokes-updated") =>
    /\ strokes = CurrentStrokes
    /\ strokes[1] = origin
    /\ (~ horizontal_mirror /\ ~ vertical_mirror /\ ~ point_symmetry
          => strokes = <<origin>>)
    /\ (horizontal_mirror /\ vertical_mirror /\ point_symmetry
          => Len(strokes) = 4)

\* C1 witness: all three flags, four strokes just derived, and the origin lies
\* on the horizontal axis, so that two of the four coincide.
C1_Witness ==
  /\ Has(log, "strokes-updated")
  /\ horizontal_mirror /\ vertical_mirror /\ point_symmetry
  /\ Len(strokes) = 4
  /\ strokes[2] = strokes[1]
  /\ strokes[3] # strokes[1]

\* C4: point_symmetry implies that both guides exist and are attached to the
\* image, and an axis's own flag implies that its guide exists and is attached.
C4_GuidesPresent ==
  /\ point_symmetry => Attached(horizontal_guide) /\ Attached(vertical_guide)
  /\ horizontal_mirror => Attached(horizontal_guide)
  /\ vertical_mirror => Attached(vertical_guide)

\* C4 witness: point symmetry alone holds both guides attached.
C4_Witness ==
  /\ point_symmetry /\ ~ horizontal_mirror /\ ~ vertical_mirror
  /\ Attached(horizontal_guide) /\ Attached(vertical_guide)

\* C5 as claimed: once an origin is recorded and while the mirror is installed,
\* the stroke list is the derivation from the current flags and positions,
\* after every mutation (a position change included).
C5_StrokesAlwaysCurrent ==
  installed /\ origin # NoCoords => strokes = CurrentStrokes

\* C5 as amended: a step that changes a flag (a setter that does not return
\* early, a guide removal) or drops a guide handle (a guide removal), and that
\* leaves the mirror installed with an origin recorded, leaves the stroke list
\* equal to the derivation from the new flags and positions.
C5_StrokesCurrentAfterFlagChange ==
  [][(/\ installed' /\ origin # NoCoords
      /\ \/ horizontal_mirror' # horizontal_mirror
         \/ vertical_mirror' # vertical_mirror
         \/ point_symmetry' # point_symmetry
         \/ horizontal_guide # NULL /\ horizontal_guide' = NULL
         \/ vertical_guide # NULL /\ vertical_guide' = NULL)
     => strokes' = DerivedStrokes(origin', horizontal_mirror', vertical_mirror',
                                  point_symmetry', horizontal_position',
                                  vertical_position')]_vars

\* C5 witness: strokes derived by a setter that showed a guide kept from
\* before, about an axis that is no longer at the middle of the image.
C5_Witness ==
  /\ installed /\ origin # NoCoords
  /\ Has(log, "strokes-updated") /\ Has(log, "add_guide")
  /\ horizontal_mirror /\ horizontal_position # FromInt(ImageHeight) \div 2
  /\ Len(strokes) = 2 /\ strokes = CurrentStrokes

\* C7 as claimed: when the image removes the guide of the only active axis (the
\* other axis's flag and point symmetry are off), the mirror is removed from
\* its image, exactly once.
C7_SoleAxisRemovalTearsDown ==
  [][(\/ /\ horizontal_guide # NULL /\ horizontal_guide' = NULL
         /\ horizontal_mirror /\ ~ vertical_mirror /\ ~ point_symmetry
      \/ /\ vertical_guide # NULL /\ vertical_guide' = NULL
         /\ vertical_mirror /\ ~ horizontal_mirror /\ ~ point_symmetry)
     => ~ installed' /\ Count(log', "remove_multi_stroke") = 1]_vars

\* C7 failing run: the vertical guide was shown and hidden (its handle is
\* kept), the horizontal axis is the only active one, its guide is removed by
\* the image, and the mirror stays installed with no flag active.
C7_Reached ==
  /\ installed /\ Has(log, "remove_guide") /\ ~ Has(log, "remove_multi_stroke")
  /\ horizontal_guide = NULL /\ vertical_guide # NULL
  /\ ~ horizontal_mirror /\ ~ vertical_mirror /\ ~ point_symmetry
  /\ ~ Attached(vertical_guide)

\* C6: a setter that turns an axis off while point symmetry is on leaves that
\* axis's guide attached and subscribed; turning point symmetry off while an
\* axis's own flag is on leaves that axis's guide attached; a setter that turns
\* off the last flag requiring a guide leaves the guide detached from the image
\* and its handle kept.
C6_Deactivation ==
  [][/\ (horizontal_mirror /\ ~ horizontal_mirror' /\ point_symmetry /\ point_symmetry')
          => /\ horizontal_guide' = horizontal_guide
             /\ AttachedIn(guides', horizontal_guide')
             /\ SubscribedIn(guides', horizontal_guide')
     /\ (vertical_mirror /\ ~ vertical_mirror' /\ point_symmetry /\ point_symmetry')
          => /\ vertical_guide' = vertical_guide
             /\ AttachedIn(guides', vertical_guide')
             /\ SubscribedIn(guides', vertical_guide')
     /\ (point_symmetry /\ ~ point_symmetry' /\ horizontal_mirror /\ horizontal_mirror')
          => /\ horizontal_guide' = horizontal_guide
             /\ AttachedIn(guides', horizontal_guide')
     /\ (point_symmetry /\ ~ point_symmetry' /\ vertical_mirror /\ vertical_mirror')
          => /\ vertical_guide' = vertical_guide
             /\ AttachedIn(guides', vertical_guide')
     /\ (/\ horizontal_guide' = horizontal_guide /\ vertical_guide' = vertical_guide
         /\ ~ horizontal_mirror' /\ ~ point_symmetry'
         /\ \/ horizontal_mirror /\ ~ point_symmetry
            \/ point_symmetry /\ ~ horizontal_mirror)
          => horizontal_guide' # NULL /\ ~ AttachedIn(guides', horizontal_guide')
     /\ (/\ horizontal_guide' = horizontal_guide /\ vertical_guide' = vertical_guide
         /\ ~ vertical_mirror' /\ ~ point_symmetry'
         /\ \/ vertical_mirror /\ ~ point_symmetry
            \/ point_symmetry /\ ~ vertical_mirror)
          => vertical_guide' # NULL /\ ~ AttachedIn(guides', vertical_guide')
    ]_vars

\* C6 witness: a setter has just hidden the horizontal guide (handle kept, no
\* longer attached) while the vertical guide, whose own flag is on, stays.
C6_Witness ==
  /\ installed /\ Has(log, "remove_guide")
  /\ ~ horizontal_mirror /\ ~ point_symmetry /\ vertical_mirror
  /\ horizontal_guide # NULL /\ ~ Attached(horizontal_guide)
  /\ Attached(vertical_guide) /\ Subscribed(vertical_guide)

\* C8: in every state, each of the three setters called with the current
\* value of its flag changes nothing: no flag, position, handle, guide,
\* subscription or stroke changes, and the handler does nothing but return.
C8_SettersIdempotent ==
  installed =>
    \A t \in {gimp_mirror_set_horizontal_symmetry(State, horizontal_mirror),
              gimp_mirror_set_vertical_symmetry(State, vertical_mirror),
              gimp_mirror_set_point_symmetry(State, point_symmetry)} :
      /\ [t EXCEPT !.log = <<>>] = State
      /\ t.log = <<"return">>

\* C8 witness: a setter has returned early on a mirror with flags on, guides
\* attached and an origin recorded.
C8_Witness ==
  /\ log = <<"return">> /\ origin # NoCoords
  /\ horizontal_mirror /\ point_symmetry /\ ~ vertical_mirror
  /\ Len(strokes) = 3

\* C10: a guide handle is created only by an activation (of the axis's flag or
\* of point symmetry) that finds no handle, it is a new guide, and the stored
\* position is then half the extent of the image; a handle is never replaced
\* by another; showing a hidden guide keeps the handle and the stored position.
C10_HandleLifecycle ==
  [][/\ (horizontal_guide = NULL /\ horizontal_guide' # NULL)
          => /\ horizontal_guide' >= next_guide_ID
             /\ next_guide_ID' > horizontal_guide'
             /\ horizontal_position' = FromInt(ImageHeight) \div 2
             /\ AttachedIn(guides', horizontal_guide')
             /\ \/ ~ horizontal_mirror /\ horizontal_mirror'
                \/ ~ point_symmetry /\ point_symmetry'
     /\ (vertical_guide = NULL /\ vertical_guide' # NULL)
          => /\ vertical_guide' >= next_guide_ID
             /\ next_guide_ID' > vertical_guide'
             /\ vertical_position' = FromInt(ImageWidth) \div 2
             /\ AttachedIn(guides', vertical_guide')
             /\ \/ ~ vertical_mirror /\ vertical_mirror'
                \/ ~ point_symmetry /\ point_symmetry'
     /\ (horizontal_guide # NULL /\ horizontal_guide' # NULL)
          => horizontal_guide' = horizontal_guide
     /\ (vertical_guide # NULL /\ vertical_guide' # NULL)
          => vertical_guide' = vertical_guide
     /\ (/\ horizontal_guide # NULL /\ ~ AttachedIn(guides, horizontal_guide)
         /\ AttachedIn(guides', horizontal_guide'))
          => horizontal_position' = horizontal_position
     /\ (/\ vertical_guide # NULL /\ ~ AttachedIn(guides, vertical_guide)
         /\ AttachedIn(guides', vertical_guide'))
          => vertical_position' = vertical_position
     /\ (next_guide_ID' # next_guide_ID)
          => \/ horizontal_guide = NULL /\ horizontal_guide' # NULL
             \/ vertical_guide = NULL /\ vertical_guide' # NULL
    ]_vars

\* C10 witness: the horizontal guide has been removed by the image, created
\* anew at the middle, moved, hidden, and is now shown again: the second
\* handle, away from the middle.
C10_Witness ==
  /\ Has(log, "add_guide") /\ horizontal_mirror /\ ~ point_symmetry
  /\ horizontal_guide > 2 /\ Attached(horizontal_guide)
  /\ guides[horizontal_guide].removed_handlers = 1
  /\ horizontal_position # FromInt(ImageHeight) \div 2

(* ------------------------ claims on the transforms --------------------- *)

\* The three descriptors for a brush of width w and height h, as documented:
\* reflection across y = h/2, reflection across x = w/2, half a turn about
\* (w/2, h/2).
HorizontalReflect(w, h) ==
  [operation |-> "gegl:reflect", origin_x |-> 0, origin_y |-> h, x |-> 2, y |-> 0]

VerticalReflect(w, h) ==
  [operation |-> "gegl:reflect", origin_x |-> w, origin_y |-> 0, x |-> 0, y |-> 2]

CentralRotate(w, h) ==
  [operation |-> "gegl:rotate", origin_x |-> w, origin_y |-> h, degrees |-> 360]

\* Where each mirrored point stands in the stroke list (0: it is not there).
HorizontalIndex == IF horizontal_mirror THEN 1 ELSE 0

VerticalIndex ==
  IF vertical_mirror THEN 1 + (IF horizontal_mirror THEN 1 ELSE 0) ELSE 0

PointIndex ==
  IF point_symmetry
    THEN 1 + (IF horizontal_mirror THEN 1 ELSE 0) + (IF vertical_mirror THEN 1 ELSE 0)
    ELSE 0

\* C2: with disable_transformation off and a brush of positive width and
\* height, get_operation on a valid index i >= 1 returns the horizontal
\* reflection exactly when stroke i is the horizontal-mirrored point, the
\* vertical reflection exactly when it is the vertical-mirrored point and the
\* half turn exactly when it is the point-mirrored one.
C2_TransformInLockstep ==
  ~ disable_transformation =>
    \A i \in 1..3, w \in 1..MaxPaint, h \in 1..MaxPaint :
      i < Len(strokes) =>
        LET t == gimp_mirror_get_operation(State, i, w, h)
        IN  /\ (t.ret = HorizontalReflect(w, h)) <=> (i = HorizontalIndex)
            /\ (t.ret = VerticalReflect(w, h)) <=> (i = VerticalIndex)
            /\ (t.ret = CentralRotate(w, h)) <=> (i = PointIndex)
            /\ i = HorizontalIndex
                 => strokes[i + 1] = [x |-> origin.x,
                                      y |-> 2 * horizontal_position - origin.y]
            /\ i = VerticalIndex
                 => strokes[i + 1] = [x |-> 2 * vertical_position - origin.x,
                                      y |-> origin.y]
            /\ i = PointIndex
                 => strokes[i + 1] = [x |-> 2 * vertical_position - origin.x,
                                      y |-> 2 * horizontal_position - origin.y]

\* C2 witness: horizontal mirror and point symmetry without the vertical
\* mirror, and get_operation has returned the half turn (for stroke 2).
C2_Witness ==
  /\ horizontal_mirror /\ ~ vertical_mirror /\ point_symmetry
  /\ ~ disable_transformation /\ Len(strokes) = 3
  /\ ret = CentralRotate(last_paint_width, last_paint_height)

\* C3: get_operation on a valid index returns no descriptor whenever
\* disable_transformation is set, or the index is 0, or the width or the
\* height of the brush is 0.
C3_NoTransform ==
  \A i \in 0..3, w \in 0..MaxPaint, h \in 0..MaxPaint :
    (i < Len(strokes) /\ (disable_transformation \/ i = 0 \/ w = 0 \/ h = 0))
      => LET t == gimp_mirror_get_operation(State, i, w, h)
         IN  t.ret = NoOp /\ ~ Has(t.log, "critical")

\* C3 witness: with disable_transformation set and four strokes, get_operation
\* has rebuilt the descriptors for a new brush size and returned none.
C3_Witness ==
  /\ disable_transformation /\ Len(strokes) = 4
  /\ Has(log, "gegl_node_new_child") /\ ret = NoOp
  /\ last_paint_width > 0 /\ last_paint_height > 0

\* C9: prepare_operations leaves the three descriptors and the cached size
\* alone, building nothing, when the brush has the cached size; otherwise it
\* builds all three descriptors for the new size and caches that size.
C9_PrepareOperations ==
  \A w \in 0..MaxPaint, h \in 0..MaxPaint :
    LET t == gimp_mirror_prepare_operations(State, w, h)
    IN  IF w = last_paint_width /\ h = last_paint_height
          THEN t = State
          ELSE /\ t.horizontal_op = HorizontalReflect(w, h)
               /\ t.vertical_op = VerticalReflect(w, h)
               /\ t.central_op = CentralRotate(w, h)
               /\ t.last_paint_width = w /\ t.last_paint_height = h
               /\ Count(t.log, "gegl_node_new_child") = 3

\* C9 witness: get_operation has returned a descriptor without building any:
\* the brush had the cached size.
C9_Witness ==
  /\ ret # NoOp /\ log = <<>>
  /\ ret \in {horizontal_op, vertical_op, central_op}

(* ---------------------- claims on the notifications -------------------- *)

\* The image has taken guide g out of its guides and runs the mirror's handler
\* of "removed".
OnRemoved(g) ==
  gimp_mirror_guide_removed_cb(
    Emit([State EXCEPT !.guides[g].attached = FALSE], "remove_guide"), g)

\* The guides whose removal the image reports to the mirror.
Reported == {g \in GuideIDs : guides[g].attached /\ guides[g].removed_handlers > 0}

\* C11: when the image removes the guide of an axis, the handler of "removed"
\* leaves that axis without a handle, its own flag and point_symmetry FALSE,
\* its position 0 and no handler of "removed" or of "notify::position" on that
\* guide, and leaves the other axis's flag, handle and position as they were.
C11_OnRemoved ==
  installed =>
    \A g \in Reported :
      LET t == OnRemoved(g)
      IN  /\ g \in {horizontal_guide, vertical_guide}
          /\ t.guides[g].removed_handlers = 0
          /\ t.guides[g].position_handlers = 0
          /\ ~ t.point_symmetry
          /\ g = horizontal_guide =>
               /\ t.horizontal_guide = NULL /\ ~ t.horizontal_mirror
               /\ t.horizontal_position = 0
               /\ t.vertical_mirror = vertical_mirror
               /\ t.vertical_guide = vertical_guide
               /\ t.vertical_position = vertical_position
          /\ g = vertical_guide =>
               /\ t.vertical_guide = NULL /\ ~ t.vertical_mirror
               /\ t.vertical_position = 0
               /\ t.horizontal_mirror = horizontal_mirror
               /\ t.horizontal_guide = horizontal_guide
               /\ t.horizontal_position = horizontal_position

\* C11 witness: the image has just removed the horizontal guide of a mirror
\* with point symmetry or the horizontal flag on; the vertical mirror is as
\* before, on and away from 0.
C11_Witness ==
  /\ installed /\ Len(log) >= 3 /\ log[1] = "remove_guide" /\ log[2] = "disconnect"
  /\ horizontal_guide = NULL /\ ~ horizontal_mirror /\ ~ point_symmetry
  /\ horizontal_position = 0
  /\ vertical_mirror /\ Attached(vertical_guide) /\ vertical_position # 0

\* C12: after the handler of "removed" has cleared an axis, the mirror is
\* removed from its image (once) exactly when both handles are NULL, a kept
\* handle of a hidden guide counting as a handle; otherwise nothing is removed
\* and, an origin being recorded, the strokes are derived again from it under
\* the cleared flags.
C12_TeardownIffNoHandle ==
  installed =>
    \A g \in Reported :
      LET t == OnRemoved(g)
      IN  /\ ~ t.installed <=> (t.horizontal_guide = NULL /\ t.vertical_guide = NULL)
          /\ IF t.horizontal_guide = NULL /\ t.vertical_guide = NULL
               THEN Count(t.log, "remove_multi_stroke") = 1
               ELSE /\ ~ Has(t.log, "remove_multi_stroke")
                    /\ origin # NoCoords =>
                         /\ Has(t.log, "strokes-updated")
                         /\ t.origin = origin
                         /\ t.strokes =
                              DerivedStrokes(origin, t.horizontal_mirror,
                                             t.vertical_mirror, t.point_symmetry,
                                             t.horizontal_position,
                                             t.vertical_position)

\* C12 witness: the image has removed the guide of the only active axis while
\* the other axis keeps the handle of a hidden guide: the mirror stays, and
\* its strokes are the origin alone.
C12_Witness ==
  /\ installed /\ Len(log) >= 3 /\ log[1] = "remove_guide"
  /\ Has(log, "strokes-updated") /\ ~ Has(log, "remove_multi_stroke")
  /\ ~ horizontal_mirror /\ ~ vertical_mirror /\ ~ point_symmetry
  /\ \/ horizontal_guide = NULL /\ vertical_guide # NULL /\ ~ Attached(vertical_guide)
     \/ vertical_guide = NULL /\ horizontal_guide # NULL /\ ~ Attached(horizontal_guide)
  /\ origin # NoCoords /\ strokes = <<origin>>

\* The guides whose moves the image reports to the mirror.
Tracked == {g \in GuideIDs : guides[g].attached /\ guides[g].position_handlers > 0}

\* C13: when a guide of the mirror is moved to p, the handler of
\* "notify::position" changes the stored position of that guide's axis and
\* nothing else (flags, other position, handles, descriptors and their cached
\* size, strokes), and the next derivation of the strokes uses the new position.
C13_OnPositionChanged ==
  installed =>
    \A g \in Tracked, p \in 0..(MaxPosition + 1) :
      LET s1 == [State EXCEPT !.guides[g].position = p]
          t  == gimp_mirror_guide_position_cb(s1, g)
      IN  /\ g \in {horizontal_guide, vertical_guide}
          /\ g = horizontal_guide =>
               t = [s1 EXCEPT !.horizontal_position = FromInt(p)]
          /\ g = vertical_guide =>
               t = [s1 EXCEPT !.vertical_position = FromInt(p)]
          /\ \A o \in Coords :
               gimp_multi_stroke_set_origin(t, o).strokes =
                 DerivedStrokes(o, horizontal_mirror, vertical_mirror,
                                point_symmetry, t.horizontal_position,
                                t.vertical_position)

\* C13 witness: the horizontal guide has been moved away from the middle of
\* the image; the stored position has followed it and the strokes, derived
\* before, have not.
C13_Witness ==
  /\ installed /\ log = <<>> /\ origin # NoCoords
  /\ horizontal_mirror /\ ~ vertical_mirror /\ ~ point_symmetry
  /\ Attached(horizontal_guide) /\ Subscribed(horizontal_guide)
  /\ horizontal_position = FromInt(guides[horizontal_guide].position)
  /\ horizontal_position # FromInt(ImageHeight) \div 2
  /\ strokes = DerivedStrokes(origin, TRUE, FALSE, FALSE,
                              FromInt(ImageHeight) \div 2, vertical_position)
  /\ strokes # CurrentStrokes

(* ------------------ claims on the flags and the strokes ---------------- *)

\* How many of the three flags are on.
ActiveFlags ==
  (IF horizontal_mirror THEN 1 ELSE 0) + (IF vertical_mirror THEN 1 ELSE 0)
  + (IF point_symmetry THEN 1 ELSE 0)

\* C14: set_point_symmetry, turning point symmetry on or off, never changes
\* horizontal_mirror or vertical_mirror, and turning it on it adds and connects
\* the guides of exactly the axes whose own flag is off, leaving the guide of an
\* axis whose flag is on alone; set_horizontal_symmetry and
\* set_vertical_symmetry never change point_symmetry or the other axis's flag.
C14_SetterFrames ==
  installed =>
    \A active \in BOOLEAN :
      LET tp == gimp_mirror_set_point_symmetry(State, active)
          th == gimp_mirror_set_horizontal_symmetry(State, active)
          tv == gimp_mirror_set_vertical_symmetry(State, active)
      IN  /\ tp.horizontal_mirror = horizontal_mirror
          /\ tp.vertical_mirror = vertical_mirror
          /\ tp.point_symmetry = active
          /\ (active /\ ~ point_symmetry) =>
               /\ Count(tp.log, "add_guide") =
                    (IF horizontal_mirror THEN 0 ELSE 1)
                    + (IF vertical_mirror THEN 0 ELSE 1)
               /\ horizontal_mirror =>
                    /\ tp.horizontal_guide = horizontal_guide
                    /\ tp.guides[horizontal_guide] = guides[horizontal_guide]
               /\ vertical_mirror =>
                    /\ tp.vertical_guide = vertical_guide
                    /\ tp.guides[vertical_guide] = guides[vertical_guide]
               /\ ~ horizontal_mirror =>
                    /\ AttachedIn(tp.guides, tp.horizontal_guide)
                    /\ SubscribedIn(tp.guides, tp.horizontal_guide)
               /\ ~ vertical_mirror =>
                    /\ AttachedIn(tp.guides, tp.vertical_guide)
                    /\ SubscribedIn(tp.guides, tp.vertical_guide)
          /\ th.horizontal_mirror = active
          /\ th.point_symmetry = point_symmetry
          /\ th.vertical_mirror = vertical_mirror
          /\ tv.vertical_mirror = active
          /\ tv.point_symmetry = point_symmetry
          /\ tv.horizontal_mirror = horizontal_mirror

\* C14 witness: point symmetry has just been turned on over a horizontal
\* mirror: one guide added, the vertical one, the horizontal guide connected
\* once as before, and the vertical flag still off.
C14_Witness ==
  /\ point_symmetry /\ horizontal_mirror /\ ~ vertical_mirror
  /\ Count(log, "add_guide") = 1 /\ Count(log, "connect") = 2
  /\ guides[horizontal_guide].removed_handlers = 1
  /\ Attached(vertical_guide) /\ Subscribed(vertical_guide)

\* C15: whenever an origin is recorded and the mirror is still on its image,
\* the first stroke is the origin and there are exactly 1 + (number of flags
\* on) strokes, so that every index from 1 that get_operation accepts is the
\* index of the mirrored point of a flag that is on.
C15_StrokeCount ==
  (installed /\ origin # NoCoords) =>
    /\ Len(strokes) = 1 + ActiveFlags
    /\ strokes[1] = origin
    /\ \A i \in 1..(Len(strokes) - 1) :
         i \in {HorizontalIndex, VerticalIndex, PointIndex}

\* C15 witness: three flags were on and the image has removed the horizontal
\* guide: the vertical mirror alone is left, with two strokes.
C15_Witness ==
  /\ installed /\ origin # NoCoords
  /\ Len(log) >= 3 /\ log[1] = "remove_guide" /\ Has(log, "strokes-updated")
  /\ vertical_mirror /\ ~ horizontal_mirror /\ ~ point_symmetry
  /\ horizontal_guide = NULL
  /\ Len(strokes) = 2 /\ strokes[1] = origin

SetterResults ==
  {gimp_mirror_set_horizontal_symmetry(State, active) : active \in BOOLEAN}
  \cup {gimp_mirror_set_vertical_symmetry(State, active) : active \in BOOLEAN}
  \cup {gimp_mirror_set_point_symmetry(State, active) : active \in BOOLEAN}

\* C17 as claimed: over the flag setters, every gimp_image_add_guide is for a
\* guide that is not on the image yet, and no guide ever has more than one
\* handler of "removed" or more than one handler of "notify::position"
\* connected by the mirror.
C17_SingleAttachSubscribe ==
  installed =>
    /\ \A g \in GuideIDs : /\ guides[g].removed_handlers <= 1
                           /\ guides[g].position_handlers <= 1
    /\ \A t \in SetterResults :
         Count(t.log, "add_guide") =
           Cardinality({g \in GuideIDs : t.guides[g].attached /\ ~ guides[g].attached})

\* C17 failing run: set_point_symmetry(TRUE), set_horizontal_symmetry(TRUE):
\* the horizontal guide, on the image since the first call, has been added and
\* connected a second time.
C17_Reached ==
  /\ installed /\ point_symmetry /\ horizontal_mirror
  /\ Has(log, "add_guide")
  /\ guides[horizontal_guide].removed_handlers = 2
  /\ guides[horizontal_guide].position_handlers = 2

\* C18 as claimed: while the mirror is on its image, a guide of the mirror is
\* on the image, or connected, only if its own axis's flag or point_symmetry
\* is on.
C18_AttachedOnlyIfRequired ==
  installed =>
    /\ (/\ horizontal_guide # NULL
        /\ \/ guides[horizontal_guide].attached
           \/ guides[horizontal_guide].removed_handlers > 0
           \/ guides[horizontal_guide].position_handlers > 0)
         => (horizontal_mirror \/ point_symmetry)
    /\ (/\ vertical_guide # NULL
        /\ \/ guides[vertical_guide].attached
           \/ guides[vertical_guide].removed_handlers > 0
           \/ guides[vertical_guide].position_handlers > 0)
         => (vertical_mirror \/ point_symmetry)

\* C18 failing run: set_point_symmetry(TRUE), then the image removes the
\* horizontal guide: the vertical guide stays on the image and connected with
\* no flag on.
C18_Reached ==
  /\ installed /\ Len(log) >= 1 /\ log[1] = "remove_guide"
  /\ ~ horizontal_mirror /\ ~ vertical_mirror /\ ~ point_symmetry
  /\ horizontal_guide = NULL
  /\ Attached(vertical_guide) /\ Subscribed(vertical_guide)

\* C20 as claimed: for each axis whose guide is on the image, the integer
\* position of the guide is the stored position of the axis.
C20_GuideAtStoredPosition ==
  /\ Attached(horizontal_guide)
       => FromInt(guides[horizontal_guide].position) = horizontal_position
  /\ Attached(vertical_guide)
       => FromInt(guides[vertical_guide].position) = vertical_position

\* C20 failing run: set_vertical_symmetry(TRUE) on the image of odd width: the
\* stored position is half the width and the guide sits half a pixel left.
C20_Reached ==
  /\ installed /\ vertical_mirror /\ Attached(vertical_guide)
  /\ vertical_guide = 1 /\ Has(log, "add_guide")
  /\ vertical_position = FromInt(ImageWidth) \div 2
  /\ guides[vertical_guide].position = ToInt(vertical_position)
  /\ FromInt(guides[vertical_guide].position) # vertical_position

(* -------------------- claims on the descriptors' cache ----------------- *)

\* C19: from the fresh mirror (cached size (0,0), no descriptor built) and
\* over any calls of get_operation, a call that is to return a descriptor (a
\* valid index from 1, transformation not disabled, width and height not 0)
\* returns one that exists, no call returns anything but none or one of the
\* three descriptors built for the width and height it was given, and the
\* descriptor last returned was built for the cached size.
C19_DescriptorsForPassedSize ==
  /\ ret # NoOp =>
       ret \in {HorizontalReflect(last_paint_width, last_paint_height),
                VerticalReflect(last_paint_width, last_paint_height),
                CentralRotate(last_paint_width, last_paint_height)}
  /\ \A i \in 0..3, w \in 0..MaxPaint, h \in 0..MaxPaint :
       i < Len(strokes) =>
         LET t == gimp_mirror_get_operation(State, i, w, h)
         IN  /\ (~ disable_transformation /\ i >= 1 /\ w > 0 /\ h > 0)
                  => t.ret # NoOp
             /\ t.ret # NoOp =>
                  t.ret \in {HorizontalReflect(w, h), VerticalReflect(w, h),
                             CentralRotate(w, h)}

\* C19 witness: get_operation has built the descriptors for a brush of a new
\* size and returned the vertical reflection for it.
C19_Witness ==
  /\ vertical_mirror /\ ~ disable_transformation
  /\ Count(log, "gegl_node_new_child") = 3
  /\ last_paint_width > 0 /\ last_paint_height > 0
  /\ ret = VerticalReflect(last_paint_width, last_paint_height)
  /\ ret = vertical_op

(* ------------------------- save and restore ---------------------------- *)

\* The settings written to an XCF file, in the order they are written and
\* read back.
gimp_mirror_get_xcf_settings ==
  <<"horizontal-symmetry", "vertical-symmetry", "point-symmetry",
    "horizontal-position", "vertical-position", "disable-transformation">>

gimp_mirror_get_property(s, property) ==
  CASE property = "horizontal-symmetry" -> s.horizontal_mirror
    [] property = "vertical-symmetry" -> s.vertical_mirror
    [] property = "point-symmetry" -> s.point_symmetry
    [] property = "disable-transformation" -> s.disable_transformation
    [] property = "horizontal-position" -> s.horizontal_position
    [] property = "vertical-position" -> s.vertical_position

gimp_mirror_set_property(s, property, value) ==
  CASE property = "horizontal-symmetry" ->
         gimp_mirror_set_horizontal_symmetry(s, value)
    [] property = "vertical-symmetry" ->
         gimp_mirror_set_vertical_symmetry(s, value)
    [] property = "point-symmetry" ->
         gimp_mirror_set_point_symmetry(s, value)
    [] property = "disable-transformation" ->
         set_disable_transformation(s, value)
    [] property = "horizontal-position" ->
         set_horizontal_position(s, value)
    [] property = "vertical-position" ->
         set_vertical_position(s, value)

\* A mirror just constructed on an image that has none of its guides.
gimp_mirror_new ==
  [horizontal_mirror |-> FALSE, vertical_mirror |-> FALSE,
   point_symmetry |-> FALSE, disable_transformation |-> FALSE,
   horizontal_position |-> 0, vertical_position |-> 0,
   horizontal_guide |-> NULL, vertical_guide |-> NULL,
   horizontal_op |-> NoOp, vertical_op |-> NoOp, central_op |-> NoOp,
   last_paint_width |-> 0, last_paint_height |-> 0,
   origin |-> NoCoords, strokes |-> <<>>,
   next_guide_ID |-> 1, guides |-> [g \in GuideIDs |-> NewGuide],
   installed |-> TRUE, log |-> <<>>, ret |-> NoOp]

\* Reading the settings of mirror s back into mirror t, one property after
\* the other.
RECURSIVE Restore(_, _, _)
Restore(t, s, settings) ==
  IF settings = <<>>
    THEN t
    ELSE Restore(gimp_mirror_set_property(t, Head(settings),
                                          gimp_mirror_get_property(s, Head(settings))),
                 s, Tail(settings))

\* C21 as claimed: the six settings of any reachable mirror, set in the order
\* of gimp_mirror_get_xcf_settings on a mirror just constructed, give a mirror
\* with the same three flags, the same disable_transformation and the same two
\* stored positions.
C21_RoundTrip ==
  LET t == Restore(gimp_mirror_new, State, gimp_mirror_get_xcf_settings)
  IN  /\ t.horizontal_mirror = horizontal_mirror
      /\ t.vertical_mirror = vertical_mirror
      /\ t.point_symmetry = point_symmetry
      /\ t.disable_transformation = disable_transformation
      /\ t.horizontal_position = horizontal_position
      /\ t.vertical_position = vertical_position

\* C21 failing run: set_vertical_symmetry(TRUE) on the image of odd width
\* stores half the width; read back, the position property moves the new
\* guide to the truncated position and the guide's notification stores that.
C21_Reached ==
  /\ installed /\ vertical_mirror /\ ~ horizontal_mirror /\ ~ point_symmetry
  /\ vertical_position = FromInt(ImageWidth) \div 2
  /\ LET t == Restore(gimp_mirror_new, State, gimp_mirror_get_xcf_settings)
     IN  /\ t.vertical_mirror
         /\ t.vertical_position = FromInt(ToInt(vertical_position))
         /\ t.vertical_position # vertical_position

====
